---- MODULE Spec2Model ----
(***************************************************************************)
(* A model of the physics engine of what-if-engine                         *)
(* (physics-engine/src/physics.rs, physics/shape.rs, lib.rs).              *)
(*                                                                         *)
(* Numbers.  The engine computes in f64.  The model computes in fixed      *)
(* point: the real number r is the integer r * Scale, Scale = 4000, so     *)
(* that the quantities the engine derives from its constants for a time    *)
(* step of 25000 microseconds are whole numbers:                           *)
(*    MOVEMENT_COEFFICIENT * 25000 = 1.0      ->  4000                     *)
(*    GRAVITY_COEFFICIENT  * 25000 = 0.24525  ->   981                     *)
(*    1e-6 * 25000                 = 0.025    ->   100                     *)
(* f64::INFINITY is the value INFINITY; dividing by it gives 0.            *)
(*                                                                         *)
(* References.  An Rc allocation is an address of Addrs.  A Weak keeps the *)
(* allocation (not the value) alive, so an address is free for a new shape *)
(* only when no entity owns it and no Weak (a binding's target, an entry   *)
(* of the render side-lists) points at it.  Weak::strong_count() > 0 and   *)
(* Weak::upgrade() succeed exactly when an entity of the list owns the     *)
(* address.                                                                *)
(***************************************************************************)
EXTENDS Integers, Sequences, FiniteSets, TLC

VARIABLES
    entities,                     \* Engine.entities: Vec<Entity>
    polygons,                     \* Engine.polygons: Vec<WithColor<Weak<..Polygon>>>
    circles,                      \* Engine.circles:  Vec<WithColor<Weak<..Circle>>>
    main_ball_starting_position,  \* Engine.main_ball_starting_position
    flags,                        \* Engine.flags: Vec<Polygon>
    restitution_mulipiler,        \* Engine.restitution_mulipiler
    friction_mulipiler,           \* Engine.friction_mulipiler
    gravity_mulipiler,            \* Engine.gravity_mulipiler
    static_friction_enabled,      \* Engine.static_friction_enabled
    dynamic_friction_enabled,     \* Engine.dynamic_friction_enabled
    main_ball,                    \* the allocation Engine::new made for the main ball
    panicked,                     \* a call has panicked (index out of range, BorrowMutError)
    call,                         \* the last call made on the engine and its arguments
    tick,                         \* what the last run_iteration did and returned
    calls                         \* number of calls made on the engine so far

engine_vars ==
    <<entities, polygons, circles, main_ball_starting_position, flags,
      restitution_mulipiler, friction_mulipiler, gravity_mulipiler,
      static_friction_enabled, dynamic_friction_enabled>>

vars ==
    <<entities, polygons, circles, main_ball_starting_position, flags,
      restitution_mulipiler, friction_mulipiler, gravity_mulipiler,
      static_friction_enabled, dynamic_friction_enabled,
      main_ball, panicked, call, tick, calls>>

----------------------------------------------------------------------------
(* Bounds of the model                                                     *)

MaxEntities == 3   \* entities in the list at once
MaxAnchors == 1    \* unbound anchors plus bindings held by one entity
MaxCalls == 4      \* calls made on the engine in one run

\* the allocations that can exist at once: one more than the entities
Addrs == 1..(MaxEntities + 1)

----------------------------------------------------------------------------
(* Fixed point arithmetic                                                  *)

Scale == 4 * 1000

\* f64::INFINITY: a value no finite mass takes
INFINITY == 0 - 1

Abs(a) == IF a < 0 THEN -a ELSE a

Min(a, b) == IF a <= b THEN a ELSE b

\* a / b rounded toward zero, b > 0
TDiv(a, b) == IF a >= 0 THEN a \div b ELSE -((-a) \div b)

\* product and quotient of two fixed point numbers
Mul(a, b) == TDiv(a * b, Scale)

FDiv(a, b) == IF b < 0 THEN -TDiv(a * Scale, -b) ELSE TDiv(a * Scale, b)

\* x / m and 1 / m where m may be f64::INFINITY
DivMass(x, m) == IF m = INFINITY THEN 0 ELSE FDiv(x, m)

recip(m) == DivMass(Scale, m)

is_finite(m) == m # INFINITY

----------------------------------------------------------------------------
(* geometry::Point / geometry::Vector: pairs <<x, y>>                      *)

ZERO == <<0, 0>>

VAdd(a, b) == <<a[1] + b[1], a[2] + b[2]>>

VSub(a, b) == <<a[1] - b[1], a[2] - b[2]>>

VNeg(a) == <<-a[1], -a[2]>>

\* vector times fixed point scalar
VScale(a, s) == <<Mul(a[1], s), Mul(a[2], s)>>

dot(a, b) == Mul(a[1], b[1]) + Mul(a[2], b[2])

cross(a, b) == Mul(a[1], b[2]) - Mul(a[2], b[1])

\* rotation by a quarter turn, such that v - perpendicular(r * w) is the
\* velocity of the point at offset r of a body turning at w
perpendicular(a) == <<a[2], -a[1]>>

\* norm and unit vector.  Contacts of the model lie along an axis, where
\* these are exact; another vector is measured along its larger component.
norm(a) == IF Abs(a[1]) >= Abs(a[2]) THEN Abs(a[1]) ELSE Abs(a[2])

unit(a) ==
    IF Abs(a[1]) >= Abs(a[2])
    THEN <<IF a[1] < 0 THEN -Scale ELSE Scale, 0>>
    ELSE <<0, IF a[2] < 0 THEN -Scale ELSE Scale>>

is_close_enough_to(a, b) == a = b

----------------------------------------------------------------------------
(* Constants of the program, in fixed point                                *)

GRAVITY_COEFFICIENT == 981      \* 0.00000981, in units of 1e-8
MOVEMENT_COEFFICIENT == 4000    \* 0.00004, in units of 1e-8
RESTITUTION == 800              \* 0.2
STATIC_FRICTION_BOUND == 10000  \* 1e-4 is 1 / 10000
DYNAMIC_FRICTION_GAIN == 50     \* 50.0
CORRECTION_RATE == 1000000      \* 1e-6 is 1 / 1000000
HORIZONTAL_BOUND == 20000       \* 5.0
LOWER_BOUND == -20000           \* -5.0
MAIN_BALL_RADIUS == 400         \* 0.1
FLAG_SIDE == 400                \* 0.1

\* coefficient (in units of 1e-8) times a number of microseconds
CoefTimes(coefficient, microseconds) ==
    (coefficient * microseconds) \div ((100 * 1000 * 1000) \div Scale)

----------------------------------------------------------------------------
(* physics::shape: Circle, Polygon and their CollisionData.  A shape is    *)
(* its kind, its CollisionData and its extent about the centroid: the      *)
(* radius of a circle, half the side of a polygon, which the model keeps   *)
(* an axis-parallel square.  The orientation of a shape is not kept; its   *)
(* angular velocity is.                                                    *)

UnitMass == Scale

UnitInertia == Scale

Circle_new(center, radius) ==
    [kind |-> "circle", centroid |-> center, extent |-> radius,
     mass |-> UnitMass, inertia |-> UnitInertia,
     velocity |-> ZERO, angular_velocity |-> 0]

\* Polygon::new of the square with lower left corner `corner` and side `side`
Polygon_new(corner, side) ==
    [kind |-> "polygon",
     centroid |-> <<corner[1] + side \div 2, corner[2] + side \div 2>>,
     extent |-> side \div 2,
     mass |-> UnitMass, inertia |-> UnitInertia,
     velocity |-> ZERO, angular_velocity |-> 0]

translate(shape, translation) ==
    [shape EXCEPT !.centroid = VAdd(@, translation)]

\* Bounded::includes: circle by distance <= radius, polygon by point-in-polygon
includes(shape, point) ==
    LET dx == Abs(point[1] - shape.centroid[1])
        dy == Abs(point[2] - shape.centroid[2])
    IN  /\ dx <= shape.extent
        /\ dy <= shape.extent
        /\ shape.kind = "circle" => dx * dx + dy * dy <= shape.extent * shape.extent

NoCollision == [none |-> TRUE]

\* compute::collision: whether the two shapes overlap and, if so, the
\* penetration vector (from the first shape toward the second) and the two
\* supporting points that produced it.  Shapes overlap when their extents
\* do along both axes; the vector lies along the axis of least overlap.
collision(first, second) ==
    LET d  == VSub(second.centroid, first.centroid)
        px == first.extent + second.extent - Abs(d[1])
        py == first.extent + second.extent - Abs(d[2])
        n  == IF px <= py
              THEN <<IF d[1] < 0 THEN -1 ELSE 1, 0>>
              ELSE <<0, IF d[2] < 0 THEN -1 ELSE 1>>
        depth == Min(px, py)
    IN  IF px < 0 \/ py < 0
        THEN NoCollision
        ELSE [none |-> FALSE,
              point |-> <<n[1] * depth, n[2] * depth>>,
              created_from |->
                  <<VAdd(first.centroid, <<n[1] * first.extent, n[2] * first.extent>>),
                    VSub(second.centroid, <<n[1] * second.extent, n[2] * second.extent>>)>>]

\* compute::impulse: the closing speed along `normal` over the sum of the
\* inverse masses and the inverse-inertia weighted angular terms, times
\* `coefficient`.  With both bodies of infinite mass the quotient is 0 / 0,
\* which compares greater than nothing: 0 stands for it.
impulse(first, second, first_offset, second_offset, normal, relative_velocity, coefficient) ==
    LET c1 == cross(first_offset, normal)
        c2 == cross(second_offset, normal)
        denominator ==
            recip(first.mass) + recip(second.mass)
              + DivMass(Mul(c1, c1), first.inertia)
              + DivMass(Mul(c2, c2), second.inertia)
    IN  IF denominator = 0
        THEN 0
        ELSE FDiv(Mul(-coefficient, dot(relative_velocity, normal)), denominator)

\* the integration step that translates by the velocity it has just updated
update_position_by_updated_velocity(shape, microseconds, gravity_multiplier) ==
    LET gravity  == Mul(gravity_multiplier, CoefTimes(GRAVITY_COEFFICIENT, microseconds))
        moved    == [shape EXCEPT !.velocity = VAdd(@, <<0, gravity>>)]
    IN  translate(moved, VScale(moved.velocity, CoefTimes(MOVEMENT_COEFFICIENT, microseconds)))

\* Collidable::update_position
update_position(shape, microseconds, gravity_multiplier) ==
    LET velocity == shape.velocity
        gravity  == Mul(gravity_multiplier, CoefTimes(GRAVITY_COEFFICIENT, microseconds))
        moved    == [shape EXCEPT !.velocity = VAdd(@, <<0, gravity>>)]
    IN  translate(moved, VScale(velocity, CoefTimes(MOVEMENT_COEFFICIENT, microseconds)))

\* the friction tiers with the two switches taken for each other
friction_tier_switches_swapped(imp, static_friction_impulse, dynamic_friction_impulse, friction_m, static_friction, dynamic_friction) ==
    IF static_friction_impulse > TDiv(Mul(imp, friction_m), STATIC_FRICTION_BOUND)
    THEN IF static_friction THEN dynamic_friction_impulse ELSE 0
    ELSE IF dynamic_friction THEN static_friction_impulse ELSE 0

\* resolve_collision_with, the friction tiers: the friction impulse applied
friction_tier(imp, static_friction_impulse, dynamic_friction_impulse, friction_m, static_friction, dynamic_friction) ==
    IF static_friction_impulse > TDiv(Mul(imp, friction_m), STATIC_FRICTION_BOUND)
    THEN IF dynamic_friction THEN dynamic_friction_impulse ELSE 0
    ELSE IF static_friction THEN static_friction_impulse ELSE 0

\* resolve_collision_with, the four velocity updates of one body; `sign` is
\* -1 for the first body and 1 for the second
apply_impulses(body, offset, normal, friction_normal, imp, friction_impulse, sign) ==
    [body EXCEPT
       !.velocity =
           VAdd(VAdd(@, VScale(normal, sign * DivMass(imp, body.mass))),
                VScale(friction_normal, sign * DivMass(friction_impulse, body.mass))),
       !.angular_velocity =
           @ + sign * DivMass(Mul(imp, cross(offset, normal)), body.inertia)
             + sign * DivMass(Mul(friction_impulse, cross(offset, friction_normal)),
                              body.inertia)]

\* the velocity updates that push both bodies the same way
resolve_velocities_same_sign(first, second, first_offset, second_offset, normal, friction_normal, imp, friction_impulse) ==
    IF imp > 0
    THEN <<apply_impulses(first, first_offset, normal, friction_normal, imp,
                          friction_impulse, 1),
           apply_impulses(second, second_offset, normal, friction_normal, imp,
                          friction_impulse, 1)>>
    ELSE <<first, second>>

\* resolve_collision_with, the branch on the normal impulse
resolve_velocities(first, second, first_offset, second_offset, normal, friction_normal, imp, friction_impulse) ==
    IF imp > 0
    THEN <<apply_impulses(first, first_offset, normal, friction_normal, imp,
                          friction_impulse, -1),
           apply_impulses(second, second_offset, normal, friction_normal, imp,
                          friction_impulse, 1)>>
    ELSE <<first, second>>

\* resolve_collision_with, the positional correction of the two bodies
positional_correction(bodies, normal, depth, microseconds) ==
    IF is_finite(bodies[1].mass) \/ is_finite(bodies[2].mass)
    THEN LET translation ==
                 VScale(normal, Min(depth, (microseconds * Scale) \div CORRECTION_RATE))
             i1 == recip(bodies[1].mass)
             i2 == recip(bodies[2].mass)
             i_sum == i1 + i2
         IN  <<translate(bodies[1], VScale(VNeg(translation), FDiv(i1, i_sum))),
               translate(bodies[2], VScale(translation, FDiv(i2, i_sum)))>>
    ELSE bodies

\* resolve_collision_with, the relative velocity of the two contact points
relative_velocity_at(first, second, first_offset, second_offset) ==
    LET first_velocity ==
            VSub(first.velocity,
                 perpendicular(VScale(first_offset, first.angular_velocity)))
        second_velocity ==
            VSub(second.velocity,
                 perpendicular(VScale(second_offset, second.angular_velocity)))
    IN  VSub(second_velocity, first_velocity)

\* the pass that corrects the positions only when the normal impulse is positive
resolve_with_impulse_correcting_inside_branch(first, second, contact, first_offset, second_offset, normal, friction_normal, relative_velocity, imp, microseconds, friction_m, static_friction, dynamic_friction) ==
    IF imp > 0
    THEN positional_correction(
             resolve_velocities(first, second, first_offset, second_offset, normal,
                 friction_normal, imp,
                 friction_tier(imp,
                     impulse(first, second, first_offset, second_offset, friction_normal,
                             relative_velocity, Scale),
                     impulse(first, second, first_offset, second_offset, friction_normal,
                             relative_velocity,
                             Min(Mul(DYNAMIC_FRICTION_GAIN * norm(contact.point), friction_m),
                                 Scale)),
                     friction_m, static_friction, dynamic_friction)),
             normal, norm(contact.point), microseconds)
    ELSE <<first, second>>

\* resolve_collision_with, from the normal impulse on
resolve_with_impulse(first, second, contact, first_offset, second_offset, normal, friction_normal, relative_velocity, imp, microseconds, friction_m, static_friction, dynamic_friction) ==
    positional_correction(
        resolve_velocities(first, second, first_offset, second_offset, normal,
            friction_normal, imp,
            friction_tier(imp,
                impulse(first, second, first_offset, second_offset, friction_normal,
                        relative_velocity, Scale),
                impulse(first, second, first_offset, second_offset, friction_normal,
                        relative_velocity,
                        Min(Mul(DYNAMIC_FRICTION_GAIN * norm(contact.point), friction_m),
                            Scale)),
                friction_m, static_friction, dynamic_friction)),
        normal, norm(contact.point), microseconds)

\* Collidable::resolve_collision_with; the result is the two shapes after it
resolve_collision_with(first, second, contact, microseconds, restitution_m, friction_m, static_friction, dynamic_friction) ==
    LET restitution   == Mul(restitution_m, RESTITUTION)
        first_offset  == VSub(contact.created_from[1], first.centroid)
        second_offset == VSub(contact.created_from[2], second.centroid)
        normal        == unit(contact.point)
        relative_velocity ==
            relative_velocity_at(first, second, first_offset, second_offset)
    IN  resolve_with_impulse(first, second, contact, first_offset, second_offset, normal,
            VNeg(perpendicular(normal)), relative_velocity,
            impulse(first, second, first_offset, second_offset, normal,
                    relative_velocity, restitution + Scale),
            microseconds, friction_m, static_friction, dynamic_friction)

\* Collidable::collide; the result is the two shapes after it
collide(first, second, microseconds, restitution_m, friction_m, static_friction, dynamic_friction) ==
    LET contact == collision(first, second)
    IN  IF contact.none
        THEN <<first, second>>
        ELSE IF is_close_enough_to(contact.point, ZERO)
        THEN <<first, second>>
        ELSE resolve_collision_with(first, second, contact, microseconds, restitution_m,
                                    friction_m, static_friction, dynamic_friction)

----------------------------------------------------------------------------
(* physics::binding: Unbound anchors, Bindings, PointOnShape.  A           *)
(* PointOnShape is the offset of the point from the centroid.              *)

create_point_reference(shape, point) == VSub(point, shape.centroid)

\* PointOnShape::on / Collidable::resolve_point_reference
on(point_ref, shape) == VAdd(shape.centroid, point_ref)

Unbound_new_hinge(shape, at) ==
    [kind |-> "hinge", point |-> create_point_reference(shape, at)]

Unbound_new_rigid(shape, at) ==
    [kind |-> "rigid", point |-> create_point_reference(shape, at)]

\* Binding::try_bind: an anchor binds to a shape that occupies its point
Binding_can_bind(shape, unbound, target) ==
    includes(target, on(unbound.point, shape))

\* the Binding made of the anchor, paired with the Weak to its target
Binding_try_bind(shape, unbound, target, target_addr) ==
    [kind |-> unbound.kind,
     first |-> unbound.point,
     second |-> create_point_reference(target, on(unbound.point, shape)),
     target |-> target_addr]

\* Binding::enforce: the joint as a pinned contact of zero restitution made
\* of the gap between the anchor's point on the two shapes; the result is
\* the two shapes after it
Binding_enforce(binding, first, second, microseconds, restitution_m, friction_m, static_friction, dynamic_friction) ==
    LET p1 == on(binding.first, first)
        p2 == on(binding.second, second)
        gap == VSub(p1, p2)
    IN  IF is_close_enough_to(gap, ZERO)
        THEN <<first, second>>
        ELSE resolve_collision_with(first, second,
                 [none |-> FALSE, point |-> gap, created_from |-> <<p1, p2>>],
                 microseconds, 0, friction_m, static_friction, dynamic_friction)

----------------------------------------------------------------------------
(* Entity                                                                  *)

EntityCfg_default == [is_erasable |-> TRUE, is_bindable |-> TRUE, is_static |-> FALSE]

Entity_new(addr, shape, entity_type) ==
    [addr |-> addr, shape |-> shape,
     bindings |-> <<>>, unbound |-> <<>>,
     is_static |-> entity_type.is_static,
     is_erasable |-> entity_type.is_erasable,
     is_bindable |-> entity_type.is_bindable]

Entity_add_rigid(entity, at) ==
    [entity EXCEPT !.unbound = Append(@, Unbound_new_rigid(entity.shape, at))]

Entity_add_hinge(entity, at) ==
    [entity EXCEPT !.unbound = Append(@, Unbound_new_hinge(entity.shape, at))]

RECURSIVE BindEach(_, _, _, _)
\* the bindings the anchors `unbound[k..]` of `shape` form with the target
BindEach(shape, unbound, target, target_addr) ==
    IF unbound = <<>>
    THEN <<>>
    ELSE (IF Binding_can_bind(shape, Head(unbound), target)
          THEN <<Binding_try_bind(shape, Head(unbound), target, target_addr)>>
          ELSE <<>>)
         \o BindEach(shape, Tail(unbound), target, target_addr)

\* try_bind whose retain keeps the anchor that has just been bound
Entity_try_bind_keeping_anchor(entity, target, target_addr) ==
    [entity EXCEPT
       !.bindings = @ \o BindEach(entity.shape, entity.unbound, target, target_addr)]

\* Entity::try_bind
Entity_try_bind(entity, target, target_addr) ==
    [entity EXCEPT
       !.unbound = SelectSeq(@, LAMBDA u: ~Binding_can_bind(entity.shape, u, target)),
       !.bindings = @ \o BindEach(entity.shape, entity.unbound, target, target_addr)]

----------------------------------------------------------------------------
(* Engine                                                                  *)

Range(s) == {s[k] : k \in DOMAIN s}

\* the allocations owned by an entity of the list
Owned(ents) == {ents[k].addr : k \in DOMAIN ents}

\* Weak::strong_count() > 0, Weak::upgrade().is_some()
Alive(ents, addr) == addr \in Owned(ents)

\* the allocations some Weak points at
WeakHeld(ents, side_polygons, side_circles) ==
    UNION {{ents[k].bindings[b].target : b \in DOMAIN ents[k].bindings} : k \in DOMAIN ents}
      \cup Range(side_polygons) \cup Range(side_circles)

\* the addresses Rc::new can return
FreeAddrs(ents, side_polygons, side_circles) ==
    Addrs \ (Owned(ents) \cup WeakHeld(ents, side_polygons, side_circles))

\* the allocation that gives out again an address a Weak still points at
Rc_new_reusing_weak_held(ents, side_polygons, side_circles) ==
    LET free == Addrs \ Owned(ents)
    IN  CHOOSE a \in free : \A b \in free : a <= b

\* Rc::new: the address of the allocation.  Addresses are interchangeable,
\* so the least free one stands for any of them.
Rc_new(ents, side_polygons, side_circles) ==
    LET free == FreeAddrs(ents, side_polygons, side_circles)
    IN  CHOOSE a \in free : \A b \in free : a <= b

\* try_bind that pairs each new Binding with a Weak to its owner's own shape
Engine_try_bind_to_owner(ents, new_shape, new_addr) ==
    [k \in DOMAIN ents |-> Entity_try_bind(ents[k], new_shape, ents[k].addr)]

\* Engine::try_bind
Engine_try_bind(ents, new_shape, new_addr) ==
    [k \in DOMAIN ents |-> Entity_try_bind(ents[k], new_shape, new_addr)]

\* add_entity that puts the new entity first in the list
add_entity_in_front(ents, shape, entity_cfg, addr) ==
    <<Entity_new(addr, shape, entity_cfg)>> \o Engine_try_bind(ents, shape, addr)

\* Engine::add_entity, with the address Rc::new returned; the result is the
\* entity list after it
add_entity(ents, shape, entity_cfg, addr) ==
    LET made == IF entity_cfg.is_static
                THEN [shape EXCEPT !.mass = INFINITY, !.inertia = INFINITY]
                ELSE shape
    IN  Append(Engine_try_bind(ents, made, addr), Entity_new(addr, made, entity_cfg))

\* position of the entity owning the allocation
IndexOf(ents, addr) == CHOOSE k \in DOMAIN ents : ents[k].addr = addr

\* the integrate step that moves the static entities too
integrate_static_too(ents, microseconds, gravity_m) ==
    [k \in DOMAIN ents |->
        [ents[k] EXCEPT !.shape = update_position(@, microseconds, gravity_m)]]

\* run_iteration, integrate step: every non-static entity moves
integrate(ents, microseconds, gravity_m) ==
    [k \in DOMAIN ents |->
        IF ~ents[k].is_static
        THEN [ents[k] EXCEPT !.shape = update_position(@, microseconds, gravity_m)]
        ELSE ents[k]]

\* the cull without the exemption of the main ball
retain_without_exemption(shape, is_main_ball) ==
    shape.centroid[2] > LOWER_BOUND

\* run_iteration, the retain_mut predicate of the cull
retain(shape, is_main_ball) ==
    shape.centroid[2] > LOWER_BOUND \/ is_main_ball

\* run_iteration, cull step: is_main_ball holds of the first entity visited
cull(ents) ==
    IF ents = <<>>
    THEN <<>>
    ELSE (IF retain(ents[1].shape, TRUE) THEN <<ents[1]>> ELSE <<>>)
           \o SelectSeq(Tail(ents), LAMBDA entity: retain(entity.shape, FALSE))

\* run_iteration, the test of the main ball's bounds check
out_of_bounds(data) ==
    Abs(data.centroid[1]) > HORIZONTAL_BOUND \/ data.centroid[2] < LOWER_BOUND

\* the bounds check that forgets to zero the velocities
bounds_check_keeping_velocity(ball, starting_position) ==
    IF out_of_bounds(ball)
    THEN [ball EXCEPT !.centroid = starting_position]
    ELSE ball

\* run_iteration, bounds check of the main ball
bounds_check(ball, starting_position) ==
    IF out_of_bounds(ball)
    THEN [ball EXCEPT !.centroid = starting_position,
                      !.angular_velocity = 0,
                      !.velocity = ZERO]
    ELSE ball

\* the pickup that keeps every flag
retain_flags_keeping_all(ball, flag_list) ==
    flag_list

\* run_iteration, pickup: the flags kept
retain_flags(ball, flag_list) ==
    SelectSeq(flag_list, LAMBDA flag: collision(ball, flag).none)

\* run_iteration, the retain of this.bindings inside the pass over `rest`
retain_valid(bindings, ents) ==
    SelectSeq(bindings, LAMBDA b: Alive(ents, b.target))

\* the test of the binding that never matches the other shape
is_boud_to_other_never(bindings, ents, other) ==
    FALSE

\* run_iteration, is_boud_to_other after that retain
is_boud_to_other(bindings, ents, other) ==
    \E k \in DOMAIN bindings :
        /\ Alive(ents, bindings[k].target)
        /\ bindings[k].target = other.addr

\* the entity list with the shapes of entities i and j replaced
with_shapes(ents, i, j, shapes) ==
    [ents EXCEPT ![i].shape = shapes[1], ![j].shape = shapes[2]]

RECURSIVE collide_rest(_, _, _, _, _)
\* run_iteration, rest.iter_mut().for_each for this = ents[i], from other = ents[j]
collide_rest(ents, i, j, trace, cfg) ==
    IF j > Len(ents)
    THEN [entities |-> ents, trace |-> trace]
    ELSE LET pruned == [ents EXCEPT ![i].bindings = retain_valid(@, ents)]
         IN  IF is_boud_to_other(ents[i].bindings, ents, ents[j])
             THEN collide_rest(pruned, i, j + 1, trace, cfg)
             ELSE collide_rest(
                      with_shapes(pruned, i, j,
                          collide(ents[i].shape, ents[j].shape, cfg.microseconds,
                                  cfg.restitution, cfg.friction,
                                  cfg.static_friction, cfg.dynamic_friction)),
                      i, j + 1,
                      Append(trace, [op |-> "collide", first |-> ents[i].addr,
                                     second |-> ents[j].addr]),
                      cfg)

RECURSIVE enforce_bindings(_, _, _, _, _)
\* run_iteration, this.bindings.iter().for_each for this = ents[i], from
\* binding k; this.shape is mutably borrowed throughout, so a target that is
\* this shape itself makes borrow_mut panic
enforce_bindings(ents, i, k, trace, cfg) ==
    IF k > Len(ents[i].bindings)
    THEN [entities |-> ents, trace |-> trace, panicked |-> FALSE]
    ELSE LET binding == ents[i].bindings[k]
         IN  IF ~Alive(ents, binding.target)
             THEN enforce_bindings(ents, i, k + 1, trace, cfg)
             ELSE IF IndexOf(ents, binding.target) = i
             THEN [entities |-> ents, trace |-> trace, panicked |-> TRUE]
             ELSE enforce_bindings(
                      with_shapes(ents, i, IndexOf(ents, binding.target),
                          Binding_enforce(binding, ents[i].shape,
                              ents[IndexOf(ents, binding.target)].shape,
                              cfg.microseconds, cfg.restitution, cfg.friction,
                              cfg.static_friction, cfg.dynamic_friction)),
                      i, k + 1,
                      Append(trace, [op |-> "enforce", first |-> ents[i].addr,
                                     second |-> binding.target]),
                      cfg)

\* run_iteration, the enforcement that follows the pass over `rest`
enforce_after(collided, i, cfg) ==
    enforce_bindings(collided.entities, i, 1, collided.trace, cfg)

\* the turn of the loop that enforces the bindings before the collisions
pair_step_enforcing_first(ents, i, trace, cfg) ==
    LET enforced == enforce_bindings(ents, i, 1, trace, cfg)
        collided == collide_rest(enforced.entities, i, i + 1, enforced.trace, cfg)
    IN  [entities |-> collided.entities, trace |-> collided.trace,
         panicked |-> enforced.panicked]

\* run_iteration, one turn of the while loop: this = ents[i]
pair_step(ents, i, trace, cfg) ==
    enforce_after(collide_rest(ents, i, i + 1, trace, cfg), i, cfg)

RECURSIVE pair_loop(_, _, _, _)
RECURSIVE pair_next(_, _, _)
\* run_iteration, i += 1 and the next turn of the while loop
pair_next(stepped, i, cfg) ==
    IF stepped.panicked
    THEN stepped
    ELSE pair_loop(stepped.entities, i + 1, stepped.trace, cfg)

\* run_iteration, the while loop over all pairs of shapes, from this = ents[i]
pair_loop(ents, i, trace, cfg) ==
    IF i > Len(ents)
    THEN [entities |-> ents, trace |-> trace, panicked |-> FALSE]
    ELSE pair_next(pair_step(ents, i, trace, cfg), i, cfg)

\* to_geometry: the side-list entries retained
to_geometry_retain(shapes, ents) ==
    SelectSeq(shapes, LAMBDA addr: Alive(ents, addr))

\* to_geometry: the geometry of the shapes still alive
to_geometry(shapes, ents) ==
    LET kept == to_geometry_retain(shapes, ents)
    IN  [n \in 1..Len(kept) |->
            LET shape == ents[IndexOf(ents, kept[n])].shape
            IN  [centroid |-> shape.centroid, extent |-> shape.extent]]

RECURSIVE Flatten(_)
Flatten(ss) == IF ss = <<>> THEN <<>> ELSE Head(ss) \o Flatten(Tail(ss))

\* prune_and_send_shapes: the points of the bindings, or of the unbound
\* anchors, of kind `kind`, entity by entity
binding_points(ents, kind) ==
    Flatten([k \in 1..Len(ents) |->
        LET of_kind == SelectSeq(ents[k].bindings, LAMBDA b: b.kind = kind)
        IN  [n \in 1..Len(of_kind) |-> on(of_kind[n].first, ents[k].shape)]])

unbound_points(ents, kind) ==
    Flatten([k \in 1..Len(ents) |->
        LET of_kind == SelectSeq(ents[k].unbound, LAMBDA u: u.kind = kind)
        IN  [n \in 1..Len(of_kind) |-> on(of_kind[n].point, ents[k].shape)]])

\* prune_and_send_shapes: the DisplayMessage
prune_and_send_shapes(ents, side_polygons, side_circles, flag_list) ==
    [polygons |-> to_geometry(side_polygons, ents),
     circles |-> to_geometry(side_circles, ents),
     flags |-> [n \in 1..Len(flag_list) |->
                   [centroid |-> flag_list[n].centroid, extent |-> flag_list[n].extent]],
     rigid_bindings |-> binding_points(ents, "rigid"),
     hinges |-> binding_points(ents, "hinge"),
     unbound_rigid_bindings |-> unbound_points(ents, "rigid"),
     unbound_hinges |-> unbound_points(ents, "hinge")]

----------------------------------------------------------------------------
(* Inputs                                                                  *)

\* the points the caller clicks and places shapes at
Points == {<<0, 0>>, <<600, 0>>, <<0, -24000>>}

\* the time steps the caller passes
Microseconds == {25000}

\* the shapes add_circle and add_polygon are given, centered at a point
NewCircle(p) == Circle_new(p, 800)

NewPolygon(p) == Polygon_new(<<p[1] - 800, p[2] - 800>>, 1600)

\* the values the setters are given
GravityValues == {0, -Scale}

RestitutionValues == {0}

FrictionValues == {0}

\* the levels Engine::new is given
GroundPolygon(is_static, is_bindable) ==
    [shape |-> [corner |-> <<-800, -800>>, side |-> 1600],
     is_static |-> is_static, is_bindable |-> is_bindable]

\* a static platform whose centroid lies on the lower bound, y = -5.0
EdgePolygon ==
    [shape |-> [corner |-> <<-800, -20800>>, side |-> 1600],
     is_static |-> TRUE, is_bindable |-> TRUE]

WallCircle ==
    [shape |-> [center |-> <<600, 0>>, radius |-> 400],
     is_static |-> TRUE, is_bindable |-> FALSE]

Level(ball, level_circles, level_polygons, flags_positions) ==
    [initial_ball_position |-> ball, circles |-> level_circles,
     polygons |-> level_polygons, flags_positions |-> flags_positions]

Levels ==
    {Level(<<0, 0>>, <<>>, <<>>, <<>>),
     Level(<<0, 0>>, <<>>, <<GroundPolygon(TRUE, FALSE)>>, << <<0, 0>>, <<8000, 8000>> >>),
     Level(<<0, 0>>, <<WallCircle>>, <<GroundPolygon(FALSE, TRUE)>>, <<>>),
     Level(<<0, -24000>>, <<>>, <<>>, << <<0, -24000>>, <<0, 0>> >>),
     Level(<<20400, 0>>, <<WallCircle>>, <<GroundPolygon(TRUE, FALSE)>>, <<>>),
     Level(<<0, 0>>, <<>>, <<EdgePolygon>>, <<>>),
     Level(<<0, -19600>>, <<>>, <<>>, << <<0, -19600>>, <<0, -20700>> >>)}

----------------------------------------------------------------------------
(* Engine::new                                                             *)

NoTick == [ran |-> FALSE]

RECURSIVE new_polygons(_, _, _)
\* Engine::new, the loop over the level's polygons; Rc::new returns `addr`
\* for the first and the following addresses for the next
new_polygons(ents, level_polygons, addr) ==
    IF level_polygons = <<>>
    THEN ents
    ELSE LET entity == Head(level_polygons)
         IN  new_polygons(
                 add_entity(ents,
                     Polygon_new(entity.shape.corner, entity.shape.side),
                     [is_bindable |-> entity.is_bindable,
                      is_static |-> entity.is_static,
                      is_erasable |-> FALSE],
                     addr),
                 Tail(level_polygons), addr + 1)

RECURSIVE new_circles(_, _, _)
\* Engine::new, the loop over the level's circles
new_circles(ents, level_circles, addr) ==
    IF level_circles = <<>>
    THEN ents
    ELSE LET entity == Head(level_circles)
         IN  new_circles(
                 add_entity(ents,
                     Circle_new(entity.shape.center, entity.shape.radius),
                     [is_bindable |-> entity.is_bindable,
                      is_static |-> entity.is_static,
                      is_erasable |-> FALSE],
                     addr),
                 Tail(level_circles), addr + 1)

\* Engine::new, the flags: a square of side 0.1 for each position
new_flags(flags_positions) ==
    [n \in 1..Len(flags_positions) |-> Polygon_new(flags_positions[n], FLAG_SIDE)]

\* Engine::new of a level
Engine_new(level) ==
    LET n_polygons == Len(level.polygons)
        n_circles  == Len(level.circles)
        with_ball ==
            add_entity(<<>>, Circle_new(level.initial_ball_position, MAIN_BALL_RADIUS),
                       [is_bindable |-> TRUE, is_erasable |-> FALSE, is_static |-> FALSE],
                       1)
        with_polygons == new_polygons(with_ball, level.polygons, 2)
        with_circles == new_circles(with_polygons, level.circles, 2 + n_polygons)
    IN  /\ entities = with_circles
        /\ circles = <<1>> \o [n \in 1..n_circles |-> 1 + n_polygons + n]
        /\ polygons = [n \in 1..n_polygons |-> 1 + n]
        /\ main_ball_starting_position = level.initial_ball_position
        /\ flags = new_flags(level.flags_positions)
        /\ friction_mulipiler = Scale
        /\ restitution_mulipiler = Scale
        /\ gravity_mulipiler = Scale
        /\ dynamic_friction_enabled = TRUE
        /\ static_friction_enabled = TRUE
        /\ main_ball = 1

Init ==
    /\ \E level \in Levels : Engine_new(level)
    /\ panicked = FALSE
    /\ call = [op |-> "new"]
    /\ tick = NoTick
    /\ calls = 0

----------------------------------------------------------------------------
(* Engine::run_iteration                                                   *)

\* the bindings the pass over the pairs finds with a destroyed partner
\* (target.strong_count() = 0, target.upgrade() = None), as owner and target
dead_bindings(ents) ==
    {[owner |-> ents[k].addr, target |-> ents[k].bindings[b].target] :
        <<k, b>> \in {kb \in (DOMAIN ents) \X (1..MaxCalls) :
                        /\ kb[2] \in DOMAIN ents[kb[1]].bindings
                        /\ ~Alive(ents, ents[kb[1]].bindings[kb[2]].target)}}

\* run_iteration, from the end of the pass over the pairs on
after_pairs(microseconds, moved, kept, ball, flags_kept, paired) ==
    IF paired.panicked
    THEN \* borrow_mut panics, inside the pass over the pairs
         /\ panicked' = TRUE
         /\ entities' = paired.entities
         /\ flags' = flags_kept
         /\ tick' = NoTick
         /\ UNCHANGED <<polygons, circles>>
    ELSE /\ entities' = paired.entities
         /\ flags' = flags_kept
         /\ polygons' = to_geometry_retain(polygons, paired.entities)
         /\ circles' = to_geometry_retain(circles, paired.entities)
         /\ tick' = [ran |-> TRUE,
                     moved |-> [k \in 1..Len(moved) |->
                                   [addr |-> moved[k].addr,
                                    centroid |-> moved[k].shape.centroid]],
                     ball_moved |-> kept[1].shape,
                     ball_checked |-> ball,
                     dead |-> dead_bindings(kept),
                     trace |-> paired.trace,
                     msg |-> prune_and_send_shapes(paired.entities, polygons,
                                                   circles, flags_kept)]
         /\ UNCHANGED panicked

\* the tick that picks the flags up where the ball is before the bounds check
after_cull_pickup_before_check(microseconds, moved, kept) ==
    IF kept = <<>>
    THEN /\ panicked' = TRUE
         /\ entities' = kept
         /\ tick' = NoTick
         /\ UNCHANGED <<polygons, circles, flags>>
    ELSE LET ball == bounds_check(kept[1].shape, main_ball_starting_position)
         IN  after_pairs(microseconds, moved, kept, ball,
                 retain_flags(kept[1].shape, flags),
                 pair_loop([kept EXCEPT ![1].shape = ball], 1, <<>>,
                     [microseconds |-> microseconds,
                      restitution |-> restitution_mulipiler,
                      friction |-> friction_mulipiler,
                      static_friction |-> static_friction_enabled,
                      dynamic_friction |-> dynamic_friction_enabled]))

\* run_iteration, from the bounds check of the main ball on
after_cull(microseconds, moved, kept) ==
    IF kept = <<>>
    THEN \* self.entities[0] panics, after the cull
         /\ panicked' = TRUE
         /\ entities' = kept
         /\ tick' = NoTick
         /\ UNCHANGED <<polygons, circles, flags>>
    ELSE LET ball == bounds_check(kept[1].shape, main_ball_starting_position)
         IN  after_pairs(microseconds, moved, kept, ball, retain_flags(ball, flags),
                 pair_loop([kept EXCEPT ![1].shape = ball], 1, <<>>,
                     [microseconds |-> microseconds,
                      restitution |-> restitution_mulipiler,
                      friction |-> friction_mulipiler,
                      static_friction |-> static_friction_enabled,
                      dynamic_friction |-> dynamic_friction_enabled]))

\* Engine::run_iteration
run_iteration(microseconds) ==
    /\ ~panicked
    /\ calls < MaxCalls
    /\ LET moved == integrate(entities, microseconds, gravity_mulipiler)
       IN  after_cull(microseconds, moved, cull(moved))
    /\ call' = [op |-> "run_iteration", microseconds |-> microseconds]
    /\ calls' = calls + 1
    /\ UNCHANGED <<main_ball_starting_position, restitution_mulipiler,
                   friction_mulipiler, gravity_mulipiler, static_friction_enabled,
                   dynamic_friction_enabled, main_ball>>

----------------------------------------------------------------------------
(* The mutation operations                                                 *)

\* Iterator::position: the first of the indices the closure holds of, 0 for None
position(ents, matching) ==
    IF matching = {}
    THEN 0
    ELSE CHOOSE k \in matching : \A m \in matching : k <= m

\* the closure of erase_at: the entities whose shape includes the point
including(ents, point) ==
    {k \in DOMAIN ents : includes(ents[k].shape, point)}

\* Vec::remove
remove(s, i) == SubSeq(s, 1, i - 1) \o SubSeq(s, i + 1, Len(s))

AnchorCount(entity) == Len(entity.unbound) + Len(entity.bindings)

\* add_circle that does not push the new circle on the side-list
add_circle_off_the_side_list(circle) ==
    /\ ~panicked
    /\ calls < MaxCalls
    /\ Len(entities) < MaxEntities
    /\ FreeAddrs(entities, polygons, circles) # {}
    /\ entities' = add_entity(entities, circle, EntityCfg_default,
                              Rc_new(entities, polygons, circles))
    /\ call' = [op |-> "add_circle", point |-> circle.centroid]
    /\ tick' = NoTick
    /\ calls' = calls + 1
    /\ UNCHANGED <<polygons, circles, main_ball_starting_position, flags,
                   restitution_mulipiler, friction_mulipiler, gravity_mulipiler,
                   static_friction_enabled, dynamic_friction_enabled, main_ball, panicked>>

\* Engine::add_circle
add_circle(circle) ==
    /\ ~panicked
    /\ calls < MaxCalls
    /\ Len(entities) < MaxEntities
    /\ FreeAddrs(entities, polygons, circles) # {}
    /\ LET addr == Rc_new(entities, polygons, circles)
       IN  /\ entities' = add_entity(entities, circle, EntityCfg_default, addr)
           /\ circles' = Append(circles, addr)
    /\ call' = [op |-> "add_circle", point |-> circle.centroid]
    /\ tick' = NoTick
    /\ calls' = calls + 1
    /\ UNCHANGED <<polygons, main_ball_starting_position, flags, restitution_mulipiler,
                   friction_mulipiler, gravity_mulipiler, static_friction_enabled,
                   dynamic_friction_enabled, main_ball, panicked>>

\* Engine::add_polygon
add_polygon(polygon) ==
    /\ ~panicked
    /\ calls < MaxCalls
    /\ Len(entities) < MaxEntities
    /\ FreeAddrs(entities, polygons, circles) # {}
    /\ LET addr == Rc_new(entities, polygons, circles)
       IN  /\ entities' = add_entity(entities, polygon, EntityCfg_default, addr)
           /\ polygons' = Append(polygons, addr)
    /\ call' = [op |-> "add_polygon", point |-> polygon.centroid]
    /\ tick' = NoTick
    /\ calls' = calls + 1
    /\ UNCHANGED <<circles, main_ball_starting_position, flags, restitution_mulipiler,
                   friction_mulipiler, gravity_mulipiler, static_friction_enabled,
                   dynamic_friction_enabled, main_ball, panicked>>

\* erase_at that does not ask whether the entity is erasable
erase_any(ents, point) ==
    LET i == position(ents, including(ents, point))
    IN  IF i # 0 THEN remove(ents, i) ELSE ents

\* Engine::erase_at: the entity list after it
erase(ents, point) ==
    LET i == position(ents, including(ents, point))
    IN  IF i # 0 /\ ents[i].is_erasable THEN remove(ents, i) ELSE ents

\* Engine::erase_at
erase_at(point) ==
    /\ ~panicked
    /\ calls < MaxCalls
    /\ entities' = erase(entities, point)
    /\ call' = [op |-> "erase_at", point |-> point,
                found |-> position(entities, including(entities, point))]
    /\ tick' = NoTick
    /\ calls' = calls + 1
    /\ UNCHANGED <<polygons, circles, main_ball_starting_position, flags,
                   restitution_mulipiler, friction_mulipiler, gravity_mulipiler,
                   static_friction_enabled, dynamic_friction_enabled, main_ball, panicked>>

\* the target chosen without asking whether the entity is bindable
bind_target_any(ents, point) ==
    position(ents, including(ents, point))

\* Engine::add_hinge / Engine::add_rigid: the entity the anchor goes to, 0 for None
bind_target(ents, point) ==
    position(ents, {k \in including(ents, point) : ents[k].is_bindable})

\* Engine::add_hinge: the entity list after it
hinge(ents, point) ==
    LET i == bind_target(ents, point)
    IN  IF i # 0 THEN [ents EXCEPT ![i] = Entity_add_hinge(@, point)] ELSE ents

\* Engine::add_rigid: the entity list after it
rigid(ents, point) ==
    LET i == bind_target(ents, point)
    IN  IF i # 0 THEN [ents EXCEPT ![i] = Entity_add_rigid(@, point)] ELSE ents

\* the entity the anchor would go to can take one more
AnchorRoom(point) ==
    LET i == bind_target(entities, point)
    IN  i # 0 => AnchorCount(entities[i]) < MaxAnchors

\* Engine::add_hinge
add_hinge(point) ==
    /\ ~panicked
    /\ calls < MaxCalls
    /\ AnchorRoom(point)
    /\ entities' = hinge(entities, point)
    /\ call' = [op |-> "add_hinge", point |-> point,
                found |-> bind_target(entities, point)]
    /\ tick' = NoTick
    /\ calls' = calls + 1
    /\ UNCHANGED <<polygons, circles, main_ball_starting_position, flags,
                   restitution_mulipiler, friction_mulipiler, gravity_mulipiler,
                   static_friction_enabled, dynamic_friction_enabled, main_ball, panicked>>

\* Engine::add_rigid
add_rigid(point) ==
    /\ ~panicked
    /\ calls < MaxCalls
    /\ AnchorRoom(point)
    /\ entities' = rigid(entities, point)
    /\ call' = [op |-> "add_rigid", point |-> point,
                found |-> bind_target(entities, point)]
    /\ tick' = NoTick
    /\ calls' = calls + 1
    /\ UNCHANGED <<polygons, circles, main_ball_starting_position, flags,
                   restitution_mulipiler, friction_mulipiler, gravity_mulipiler,
                   static_friction_enabled, dynamic_friction_enabled, main_ball, panicked>>

\* Engine::set_gravity_multipier
set_gravity_multipier(value) ==
    /\ ~panicked
    /\ calls < MaxCalls
    /\ gravity_mulipiler' = value
    /\ call' = [op |-> "set_gravity_multipier", value |-> value]
    /\ tick' = NoTick
    /\ calls' = calls + 1
    /\ UNCHANGED <<entities, polygons, circles, main_ball_starting_position, flags,
                   restitution_mulipiler, friction_mulipiler, static_friction_enabled,
                   dynamic_friction_enabled, main_ball, panicked>>

\* Engine::set_restitution_multipier
set_restitution_multipier(value) ==
    /\ ~panicked
    /\ calls < MaxCalls
    /\ restitution_mulipiler' = value
    /\ call' = [op |-> "set_restitution_multipier", value |-> value]
    /\ tick' = NoTick
    /\ calls' = calls + 1
    /\ UNCHANGED <<entities, polygons, circles, main_ball_starting_position, flags,
                   friction_mulipiler, gravity_mulipiler, static_friction_enabled,
                   dynamic_friction_enabled, main_ball, panicked>>

\* Engine::set_friction_multipier
set_friction_multipier(value) ==
    /\ ~panicked
    /\ calls < MaxCalls
    /\ friction_mulipiler' = value
    /\ call' = [op |-> "set_friction_multipier", value |-> value]
    /\ tick' = NoTick
    /\ calls' = calls + 1
    /\ UNCHANGED <<entities, polygons, circles, main_ball_starting_position, flags,
                   restitution_mulipiler, gravity_mulipiler, static_friction_enabled,
                   dynamic_friction_enabled, main_ball, panicked>>

\* Engine::set_static_friction
set_static_friction(enabled) ==
    /\ ~panicked
    /\ calls < MaxCalls
    /\ static_friction_enabled' = enabled
    /\ call' = [op |-> "set_static_friction", value |-> enabled]
    /\ tick' = NoTick
    /\ calls' = calls + 1
    /\ UNCHANGED <<entities, polygons, circles, main_ball_starting_position, flags,
                   restitution_mulipiler, friction_mulipiler, gravity_mulipiler,
                   dynamic_friction_enabled, main_ball, panicked>>

\* Engine::set_dynamic_friction
set_dynamic_friction(enabled) ==
    /\ ~panicked
    /\ calls < MaxCalls
    /\ dynamic_friction_enabled' = enabled
    /\ call' = [op |-> "set_dynamic_friction", value |-> enabled]
    /\ tick' = NoTick
    /\ calls' = calls + 1
    /\ UNCHANGED <<entities, polygons, circles, main_ball_starting_position, flags,
                   restitution_mulipiler, friction_mulipiler, gravity_mulipiler,
                   static_friction_enabled, main_ball, panicked>>

----------------------------------------------------------------------------
(* The specification                                                       *)

RunIteration == \E us \in Microseconds : run_iteration(us)

AddCircle == \E p \in Points : add_circle(NewCircle(p))

AddPolygon == \E p \in Points : add_polygon(NewPolygon(p))

EraseAt == \E p \in Points : erase_at(p)

AddHinge == \E p \in Points : add_hinge(p)

AddRigid == \E p \in Points : add_rigid(p)

SetGravity == \E v \in GravityValues : set_gravity_multipier(v)

SetRestitution == \E v \in RestitutionValues : set_restitution_multipier(v)

SetFriction == \E v \in FrictionValues : set_friction_multipier(v)

SetStaticFriction == \E b \in BOOLEAN : set_static_friction(b)

SetDynamicFriction == \E b \in BOOLEAN : set_dynamic_friction(b)

Next ==
    \/ RunIteration
    \/ AddCircle
    \/ AddPolygon
    \/ EraseAt
    \/ AddHinge
    \/ AddRigid
    \/ SetGravity
    \/ SetRestitution
    \/ SetFriction
    \/ SetStaticFriction
    \/ SetDynamicFriction

Spec == Init /\ [][Next]_vars

----------------------------------------------------------------------------
(* One pass of Collidable::resolve_collision_with on two overlapping       *)
(* bodies, for the properties of the pass itself.  The two bodies are the  *)
(* engine's two entities, the multipliers and switches are the engine's,   *)
(* the time step is the caller's.                                          *)

\* the masses (and inertias) of the bodies: two finite ones and a static one
Masses == {Scale, 2 * Scale, INFINITY}

\* the velocities of the first and of the second body
FirstVelocities == {<<0, 0>>, <<400, 200>>}

SecondVelocities == {<<0, 0>>, <<-400, 0>>, <<200, -400>>}

\* where the second body is: deep to the right, shallow above, to the left
SecondCentroids == {<<600, 0>>, <<0, 750>>, <<-700, 0>>}

\* the time steps the caller passes to a pass: forward, none, backward
PassMicroseconds == {25000, 0, -25000}

\* the values of the friction and restitution multipliers
PassMultipliers == {0, Scale}

\* a body of the given mass and velocity
Body(shape, mass, velocity, angular_velocity) ==
    [shape EXCEPT !.mass = mass, !.inertia = mass,
                  !.velocity = velocity, !.angular_velocity = angular_velocity]

NoPass == [ran |-> FALSE, resolved |-> FALSE]

\* the engine before a pass: two overlapping bodies and a configuration
PassInit ==
    /\ \E m1 \in Masses, m2 \in Masses, v1 \in FirstVelocities,
          v2 \in SecondVelocities, c2 \in SecondCentroids, w2 \in {0, Scale} :
          \* a static body is at rest
          /\ m1 = INFINITY => v1 = ZERO
          /\ m2 = INFINITY => (v2 = ZERO /\ w2 = 0)
          /\ entities =
              <<Entity_new(1, Body(Circle_new(<<0, 0>>, MAIN_BALL_RADIUS), m1, v1, 0),
                           [is_bindable |-> TRUE, is_erasable |-> FALSE,
                            is_static |-> m1 = INFINITY]),
                Entity_new(2, Body(Circle_new(c2, MAIN_BALL_RADIUS), m2, v2, w2),
                           [is_bindable |-> TRUE, is_erasable |-> FALSE,
                            is_static |-> m2 = INFINITY])>>
    /\ circles = <<1, 2>>
    /\ polygons = <<>>
    /\ main_ball_starting_position = <<0, 0>>
    /\ flags = <<>>
    /\ friction_mulipiler \in PassMultipliers
    /\ restitution_mulipiler \in PassMultipliers
    /\ gravity_mulipiler = Scale
    /\ dynamic_friction_enabled \in BOOLEAN
    /\ static_friction_enabled \in BOOLEAN
    /\ main_ball = 1
    /\ panicked = FALSE
    /\ call = [op |-> "new"]
    /\ tick = NoPass
    /\ calls = 0

\* what a pass is given and what it leaves: the bodies before and after,
\* the contact and the normal
pass_record(first, second, contact, microseconds, after) ==
    [ran |-> FALSE, resolved |-> TRUE,
     before |-> <<first, second>>, after |-> after,
     contact |-> contact, normal |-> unit(contact.point),
     microseconds |-> microseconds]

\* first.resolve_collision_with(second, collision, microseconds, ..), the
\* collision being that of the two bodies
resolve_pass(microseconds) ==
    /\ ~tick.resolved
    /\ ~collision(entities[1].shape, entities[2].shape).none
    /\ tick' = pass_record(entities[1].shape, entities[2].shape,
                           collision(entities[1].shape, entities[2].shape), microseconds,
                           resolve_collision_with(entities[1].shape, entities[2].shape,
                               collision(entities[1].shape, entities[2].shape),
                               microseconds, restitution_mulipiler, friction_mulipiler,
                               static_friction_enabled, dynamic_friction_enabled))
    /\ entities' = [k \in {1, 2} |-> [entities[k] EXCEPT !.shape = tick'.after[k]]]
    /\ call' = [op |-> "resolve_collision_with", microseconds |-> microseconds]
    /\ calls' = calls + 1
    /\ UNCHANGED <<polygons, circles, main_ball_starting_position, flags,
                   restitution_mulipiler, friction_mulipiler, gravity_mulipiler,
                   static_friction_enabled, dynamic_friction_enabled, main_ball, panicked>>

ResolvePass == \E microseconds \in PassMicroseconds : resolve_pass(microseconds)

PassNext == ResolvePass

PassSpec == PassInit /\ [][PassNext]_vars

----------------------------------------------------------------------------
(* The host layer, lib.rs: Engine::create makes the Level of an Init       *)
(* record and hands it to Engine::new; the other methods pass their        *)
(* arguments on to the engine's.                                           *)

\* the Init records the host is given: a ball on a polygon of either kind
HostInits ==
    {[ball_position |-> <<0, 0>>, flags |-> <<>>, circles |-> <<>>,
      polygons |-> <<[points |-> [corner |-> <<-800, -800>>, side |-> 1600],
                      is_static |-> is_static, is_bindable |-> is_bindable]>>] :
        is_static \in BOOLEAN, is_bindable \in BOOLEAN}

\* Engine::create, the levels::Entity made of a circle of the Init record
create_circle(circle) ==
    [shape |-> [center |-> circle.center, radius |-> circle.radius],
     is_bindable |-> circle.is_bindable,
     is_static |-> circle.is_static]

\* Engine::create, the levels::Entity made of a polygon of the Init record
create_polygon(poly) ==
    [shape |-> poly.points,
     is_bindable |-> poly.is_bindable,
     is_static |-> poly.is_bindable]

\* Engine::create, the Level made of the Init record
create_level(init) ==
    Level(init.ball_position,
          [n \in DOMAIN init.circles |-> create_circle(init.circles[n])],
          [n \in DOMAIN init.polygons |-> create_polygon(init.polygons[n])],
          init.flags)

\* Engine::create
HostInit ==
    /\ \E init \in HostInits :
          /\ Engine_new(create_level(init))
          /\ call = [op |-> "create", init |-> init]
    /\ panicked = FALSE
    /\ tick = NoTick
    /\ calls = 0

\* the methods of the host's Engine after create
HostNext ==
    \/ RunIteration
    \/ AddCircle
    \/ AddPolygon
    \/ EraseAt
    \/ AddHinge
    \/ AddRigid

HostSpec == HostInit /\ [][HostNext]_vars

----------------------------------------------------------------------------
(* Properties                                                              *)

\* entity i holds a binding whose partner is the entity at j
Holds(i, j) ==
    \E b \in DOMAIN entities[i].bindings : entities[i].bindings[b].target = entities[j].addr

\* a live binding exists between the entities at i and j, held by either
BoundPair(i, j) == Holds(i, j) \/ Holds(j, i)

\* the bindings of entity k whose partner still exists
LiveBindings(k) ==
    {b \in DOMAIN entities[k].bindings : Alive(entities, entities[k].bindings[b].target)}

\* the calls of the last tick's trace that are `op`
Calls(op) == {n \in DOMAIN tick.trace : tick.trace[n].op = op}

\* C1: the main ball is always in the entity list, at index 0: neither the
\* cull of run_iteration nor erase_at removes it, whatever its position.
C1_MainBallFirst ==
    /\ Len(entities) >= 1
    /\ entities[1].addr = main_ball

\* a tick in which the main ball was below the lower bound after integration
C1_Witness ==
    /\ tick.ran
    /\ tick.ball_moved.centroid[2] <= LOWER_BOUND
    /\ entities[1].addr = main_ball

\* C2: a main ball that after integration has |x| > 5.0 or y < -5.0 is, at
\* the end of the tick's bounds check, at the spawn point with zero linear
\* and angular velocity; otherwise the check leaves it as it was.
C2_BallBoundsCheck ==
    tick.ran =>
        IF \/ Abs(tick.ball_moved.centroid[1]) > HORIZONTAL_BOUND
           \/ tick.ball_moved.centroid[2] < LOWER_BOUND
        THEN /\ tick.ball_checked.centroid = main_ball_starting_position
             /\ tick.ball_checked.velocity = ZERO
             /\ tick.ball_checked.angular_velocity = 0
        ELSE /\ tick.ball_checked.centroid = tick.ball_moved.centroid
             /\ tick.ball_checked.velocity = tick.ball_moved.velocity
             /\ tick.ball_checked.angular_velocity = tick.ball_moved.angular_velocity

\* a tick in which the moving ball was beyond the horizontal bound only and
\* was stopped
C2_Witness ==
    /\ tick.ran
    /\ Abs(tick.ball_moved.centroid[1]) > HORIZONTAL_BOUND
    /\ tick.ball_moved.centroid[2] >= LOWER_BOUND
    /\ tick.ball_moved.velocity # ZERO
    /\ tick.ball_checked.velocity = ZERO

\* C3: a Binding whose partner was destroyed before a run_iteration is in no
\* entity's binding list after that run_iteration, wherever the owner is in
\* the entity list (the last or the only entity included), and the tick
\* does not panic.
C3_DeadBindingsDropped ==
    [][(calls' = calls + 1 /\ call'.op = "run_iteration")
          => /\ ~panicked'
             /\ \A k \in DOMAIN entities' : \A b \in DOMAIN entities'[k].bindings :
                   Alive(entities, entities'[k].bindings[b].target)]_vars

\* C4: the snapshot of every run_iteration lists, in hinges and
\* rigid_bindings together, exactly one point per Binding whose partner
\* still exists; a Binding whose partner is destroyed contributes none.
C4_SnapshotListsLiveBindings ==
    tick.ran =>
        /\ Len(tick.msg.hinges) =
               Cardinality({<<k, b>> \in (DOMAIN entities) \X (1..MaxCalls) :
                              b \in LiveBindings(k) /\ entities[k].bindings[b].kind = "hinge"})
        /\ Len(tick.msg.rigid_bindings) =
               Cardinality({<<k, b>> \in (DOMAIN entities) \X (1..MaxCalls) :
                              b \in LiveBindings(k) /\ entities[k].bindings[b].kind = "rigid"})

\* C5: in every run_iteration collide is not run on a pair of entities with
\* a live Binding between them (held by either), and is run exactly once on
\* every other pair.
C5_CollideUnlessBound ==
    tick.ran =>
        \A i \in DOMAIN entities : \A j \in DOMAIN entities :
            i < j =>
                Cardinality({n \in Calls("collide") :
                               {tick.trace[n].first, tick.trace[n].second}
                                   = {entities[i].addr, entities[j].addr}})
                    = IF BoundPair(i, j) THEN 0 ELSE 1

\* a tick with a bound pair and a pair that is not bound
C5_Witness ==
    /\ tick.ran
    /\ \E i \in DOMAIN entities : \E j \in DOMAIN entities : i < j /\ BoundPair(i, j)
    /\ \E i \in DOMAIN entities : \E j \in DOMAIN entities : i < j /\ ~BoundPair(i, j)

\* C6: every Binding whose partner still exists is held by an entity at a
\* strictly lower index than the partner; no entity is bound to itself.
C6_BindingsPointLater ==
    \A k \in DOMAIN entities : \A b \in LiveBindings(k) :
        \E j \in DOMAIN entities :
            j > k /\ entities[j].addr = entities[k].bindings[b].target

\* a live binding that has been through a tick, held by an entity that is
\* not the first
C6_Witness ==
    /\ tick.ran
    /\ \E k \in DOMAIN entities : k > 1 /\ LiveBindings(k) # {}

C8_CulledIffBelow ==
    tick.ran =>
        \A k \in 2..Len(tick.moved) :
            ~Alive(entities, tick.moved[k].addr)
                <=> tick.moved[k].centroid[2] < LOWER_BOUND

\* what C9 says erase_at leaves: the list without the last entity that
\* contains the point, if that entity is erasable
EraseTopmost(ents, point) ==
    LET containing == {k \in DOMAIN ents : includes(ents[k].shape, point)}
    IN  IF containing = {}
        THEN ents
        ELSE LET top == CHOOSE k \in containing : \A m \in containing : m <= k
             IN  IF ents[top].is_erasable THEN remove(ents, top) ELSE ents

\* C9: erase_at removes the topmost (last added) entity containing the
\* point, only if it is erasable, and leaves every other entity in place.
C9_ErasesTopmost ==
    [][(calls' = calls + 1 /\ call'.op = "erase_at")
          => entities' = EraseTopmost(entities, call'.point)]_vars

\* the call c finds no target in the current entity list
NoTarget(c) ==
    \/ /\ c.op = "erase_at"
       /\ \A k \in DOMAIN entities : ~includes(entities[k].shape, c.point)
    \/ /\ c.op = "erase_at"
       /\ \E k \in DOMAIN entities :
             /\ includes(entities[k].shape, c.point)
             /\ ~entities[k].is_erasable
             /\ \A m \in 1..(k - 1) : ~includes(entities[m].shape, c.point)
    \/ /\ c.op \in {"add_hinge", "add_rigid"}
       /\ \A k \in DOMAIN entities :
             ~(includes(entities[k].shape, c.point) /\ entities[k].is_bindable)

\* C10: erase_at at a point in no entity, erase_at that selects a
\* non-erasable entity, and add_hinge / add_rigid at a point in no bindable
\* entity leave the whole engine state unchanged and do not panic.
C10_NoTargetNoChange ==
    [][(calls' = calls + 1 /\ NoTarget(call'))
          => (UNCHANGED engine_vars /\ ~panicked')]_vars

\* an erase_at that selected a non-erasable entity which a later, erasable
\* entity overlaps at the point
C10_Witness ==
    /\ call.op = "erase_at"
    /\ call.found \in DOMAIN entities
    /\ ~entities[call.found].is_erasable
    /\ \E k \in DOMAIN entities :
          k > call.found /\ entities[k].is_erasable /\ includes(entities[k].shape, call.point)

\* C11: when add_circle or add_polygon adds a shape, every existing entity's
\* anchors either stay or are replaced by one Binding each to the new shape
\* (anchors plus bindings unchanged in number, no Binding to another shape
\* is made), and the new entity is appended last with no bindings and no
\* anchors.
C11_AddBindsAnchorsToNewShape ==
    [][(calls' = calls + 1 /\ call'.op \in {"add_circle", "add_polygon"})
          => /\ Len(entities') = Len(entities) + 1
             /\ entities'[Len(entities')].bindings = <<>>
             /\ entities'[Len(entities')].unbound = <<>>
             /\ entities'[Len(entities')].addr \notin Owned(entities)
             /\ \A k \in DOMAIN entities :
                   /\ entities'[k].addr = entities[k].addr
                   /\ Len(entities'[k].unbound) + Len(entities'[k].bindings)
                        = Len(entities[k].unbound) + Len(entities[k].bindings)
                   /\ SubSeq(entities'[k].bindings, 1, Len(entities[k].bindings))
                        = entities[k].bindings
                   /\ \A b \in (Len(entities[k].bindings) + 1)..Len(entities'[k].bindings) :
                         entities'[k].bindings[b].target = entities'[Len(entities')].addr
                   /\ \A u \in DOMAIN entities'[k].unbound :
                         \E v \in DOMAIN entities[k].unbound :
                             entities[k].unbound[v] = entities'[k].unbound[u]]_vars

\* an add that has bound one entity's anchor to the new shape and has left
\* another entity's anchor unbound
C11_Witness ==
    /\ call.op \in {"add_circle", "add_polygon"}
    /\ \E k \in DOMAIN entities : \E b \in DOMAIN entities[k].bindings :
          entities[k].bindings[b].target = entities[Len(entities)].addr
    /\ \E k \in DOMAIN entities : entities[k].unbound # <<>>

\* C12: every static entity has infinite mass and infinite inertia, and no
\* call, in particular no tick with its integration and its collision
\* resolution against static or finite-mass bodies, changes its centroid,
\* its linear velocity or its angular velocity.
C12_StaticNeverMoves ==
    [][
        /\ \A k \in DOMAIN entities :
             entities[k].is_static
                => /\ entities[k].shape.mass = INFINITY
                   /\ entities[k].shape.inertia = INFINITY
        /\ \A k \in DOMAIN entities' :
             entities'[k].is_static
                => /\ entities'[k].shape.mass = INFINITY
                   /\ entities'[k].shape.inertia = INFINITY
        /\ \A k \in DOMAIN entities : \A j \in DOMAIN entities' :
             (entities[k].is_static /\ entities'[j].addr = entities[k].addr)
                => entities'[j].shape = entities[k].shape]_vars

\* a tick that has collided two overlapping static entities
C12_WitnessStaticPair ==
    /\ tick.ran
    /\ \E k \in DOMAIN entities : \E j \in DOMAIN entities :
          /\ entities[k].is_static /\ entities[j].is_static
          /\ ~collision(entities[k].shape, entities[j].shape).none
          /\ \E n \in Calls("collide") :
                tick.trace[n].first = entities[k].addr /\ tick.trace[n].second = entities[j].addr

\* a tick that has collided the main ball with a static entity and has
\* pushed the ball out of it
C12_Witness ==
    /\ tick.ran
    /\ \E k \in DOMAIN entities :
          /\ entities[k].is_static
          /\ \E n \in Calls("collide") :
                tick.trace[n].first = main_ball /\ tick.trace[n].second = entities[k].addr
    /\ entities[1].shape.centroid # tick.ball_checked.centroid

\* the displacement of body k in the last pass, along the contact normal
PassMove(k) ==
    dot(VSub(tick.after[k].centroid, tick.before[k].centroid), tick.normal)

\* the distance the positional correction is to separate the bodies by:
\* min(penetration magnitude, 1e-6 * time step)
PassStep ==
    Min(norm(tick.contact.point), TDiv(tick.microseconds * Scale, CORRECTION_RATE))

\* fixed point quotients are rounded toward zero: one unit for each of the
\* two quotients a result is made of
Rounding == 1 + 1

\* C13: for every time step and every pair of masses, the positional
\* correction of resolve_collision_with moves the two bodies apart along
\* the normal by min(penetration magnitude, 1e-6 * time step) in total,
\* split in proportion to inverse mass; a finite-mass body moves only in
\* the separating direction, an infinite-mass body is not moved, and with
\* two infinite masses nothing is moved.
C13_CorrectionSeparates ==
    tick.resolved =>
        /\ \A k \in {1, 2} :
              tick.before[k].mass = INFINITY
                 => tick.after[k].centroid = tick.before[k].centroid
        /\ PassMove(1) <= 0
        /\ PassMove(2) >= 0
        /\ (tick.before[1].mass # INFINITY \/ tick.before[2].mass # INFINITY)
              => Abs(PassMove(2) - PassMove(1) - PassStep) <= Rounding
        /\ (tick.before[1].mass # INFINITY /\ tick.before[2].mass # INFINITY)
              => Abs(Mul(PassMove(1), tick.before[1].mass)
                       + Mul(PassMove(2), tick.before[2].mass)) <= Rounding

\* the change of body k's linear momentum in the last pass
PassMomentumChange(k) ==
    VScale(VSub(tick.after[k].velocity, tick.before[k].velocity), tick.before[k].mass)

\* C14: for two finite-mass bodies one resolve_collision_with pass conserves
\* the total linear momentum mass1 * velocity1 + mass2 * velocity2 (to the
\* rounding of the arithmetic).
C14_MomentumConserved ==
    (/\ tick.resolved
     /\ tick.before[1].mass # INFINITY
     /\ tick.before[2].mass # INFINITY)
        => \A c \in {1, 2} :
              Abs(PassMomentumChange(1)[c] + PassMomentumChange(2)[c]) <= Rounding

\* a pass on two bodies of different finite masses that has changed their
\* velocities along the normal and across it
C14_Witness ==
    /\ tick.resolved
    /\ tick.microseconds > 0
    /\ tick.before[1].mass # INFINITY
    /\ tick.before[2].mass # INFINITY
    /\ tick.before[1].mass # tick.before[2].mass
    /\ tick.after[1].velocity[1] # tick.before[1].velocity[1]
    /\ tick.after[1].velocity[2] # tick.before[1].velocity[2]

\* the offset of the contact point from body k's centroid in the last pass
PassOffset(k) == VSub(tick.contact.created_from[k], tick.before[k].centroid)

\* compute::impulse of the last pass's bodies along `direction`
PassImpulse(direction, coefficient) ==
    impulse(tick.before[1], tick.before[2], PassOffset(1), PassOffset(2), direction,
            relative_velocity_at(tick.before[1], tick.before[2], PassOffset(1), PassOffset(2)),
            coefficient)

PassFrictionNormal == VNeg(perpendicular(tick.normal))

PassNormalImpulse == PassImpulse(tick.normal, Mul(restitution_mulipiler, RESTITUTION) + Scale)

PassStaticImpulse == PassImpulse(PassFrictionNormal, Scale)

\* the contact of the last pass is sliding: the static-friction impulse
\* exceeds normal_impulse * friction_multiplier * 1e-4
PassSliding ==
    PassStaticImpulse > TDiv(Mul(PassNormalImpulse, friction_mulipiler), STATIC_FRICTION_BOUND)

\* min(1.0, 50 * penetration magnitude * friction_multiplier)
PassDynamicCoefficient ==
    Min(Scale, Mul(DYNAMIC_FRICTION_GAIN * norm(tick.contact.point), friction_mulipiler))

\* the friction impulse of the tier table
PassTierFriction ==
    IF PassSliding
    THEN IF dynamic_friction_enabled
         THEN PassImpulse(PassFrictionNormal, PassDynamicCoefficient)
         ELSE 0
    ELSE IF static_friction_enabled THEN PassStaticImpulse ELSE 0

\* the velocity of body k after the normal impulse and the friction impulse
\* `friction`, applied with sign -1 to the first body and 1 to the second
PassVelocityWith(k, friction) ==
    VAdd(VAdd(tick.before[k].velocity,
              VScale(tick.normal,
                     (2 * k - 3) * DivMass(PassNormalImpulse, tick.before[k].mass))),
         VScale(PassFrictionNormal, (2 * k - 3) * DivMass(friction, tick.before[k].mass)))

\* C15: when the normal impulse is positive, the friction impulse that
\* resolve_collision_with applies is that of the tier table: sliding (the
\* static-friction impulse exceeds normal_impulse * friction_multiplier *
\* 1e-4) applies the impulse of coefficient min(1.0, 50 * penetration *
\* friction_multiplier) if dynamic friction is enabled and none otherwise;
\* sticking applies the static-friction impulse if static friction is
\* enabled and none otherwise.
C15_FrictionTiers ==
    (tick.resolved /\ PassNormalImpulse > 0)
        => \A k \in {1, 2} : tick.after[k].velocity = PassVelocityWith(k, PassTierFriction)

\* a sliding pass with dynamic friction enabled and static friction
\* disabled, the coefficient below 1.0, that has changed the tangential
\* velocity
C15_Witness ==
    /\ tick.resolved
    /\ PassNormalImpulse > 0
    /\ PassSliding
    /\ dynamic_friction_enabled /\ ~static_friction_enabled
    /\ PassDynamicCoefficient < Scale
    /\ PassTierFriction # 0
    /\ tick.after[2].velocity # PassVelocityWith(2, 0)

\* a sticking pass with static friction enabled and dynamic friction
\* disabled that has changed the tangential velocity
C15_WitnessSticking ==
    /\ tick.resolved
    /\ PassNormalImpulse > 0
    /\ ~PassSliding
    /\ static_friction_enabled /\ ~dynamic_friction_enabled
    /\ tick.after[2].velocity # PassVelocityWith(2, 0)

\* C16: after every run_iteration the render side-lists hold no reference to
\* a destroyed entity, and the snapshot's circles and polygons correspond
\* one-to-one with the entities in the engine: every entity is on the
\* side-lists exactly once and circles plus polygons number the entities.
C16_SnapshotMatchesEntities ==
    tick.ran =>
        /\ Range(polygons) \cup Range(circles) \subseteq Owned(entities)
        /\ \A k \in DOMAIN entities :
              Cardinality({n \in DOMAIN (polygons \o circles) :
                             (polygons \o circles)[n] = entities[k].addr}) = 1
        /\ Len(tick.msg.polygons) = Len(polygons)
        /\ Len(tick.msg.circles) = Len(circles)
        /\ Len(tick.msg.circles) + Len(tick.msg.polygons) = Len(entities)

\* a tick that has culled an entity, with a user-added entity left
C16_Witness ==
    /\ tick.ran
    /\ \E k \in DOMAIN tick.moved : ~Alive(entities, tick.moved[k].addr)
    /\ \E k \in DOMAIN entities : entities[k].is_erasable

\* C17: the flag list changes only by pickup: a run_iteration keeps exactly
\* the flags that do not overlap the main ball (as it is after the bounds
\* check), in their order, and picking a flag up is no physical response (a
\* ball alone and unbound leaves the tick as it left the bounds check); no
\* other call changes the flags, so their number never increases.
C17_FlagsChangeOnlyByPickup ==
    [][IF call'.op = "run_iteration" /\ calls' = calls + 1 /\ tick'.ran
       THEN /\ flags' = SelectSeq(flags, LAMBDA flag : collision(tick'.ball_checked, flag).none)
            /\ (Len(entities') = 1 /\ entities'[1].bindings = <<>>)
                  => entities'[1].shape = tick'.ball_checked
       ELSE flags' = flags]_vars

\* a tick after which the flag at the ball's spawn point has been picked up
\* and another flag is left
C17_Witness ==
    /\ tick.ran
    /\ flags # <<>>
    /\ tick.ball_checked.centroid = main_ball_starting_position
    /\ \A n \in DOMAIN flags :
          flags[n] # Polygon_new(main_ball_starting_position, FLAG_SIDE)

\* the engine is as Engine::new made it of `level`
NewOf(level) ==
    /\ call.op = "new"
    /\ main_ball_starting_position = level.initial_ball_position
    /\ Len(entities) = 1 + Len(level.polygons) + Len(level.circles)
    /\ Len(flags) = Len(level.flags_positions)

\* C18: Engine::new expands each flag position (x, y) of the level into a
\* square polygon of side 0.1 centered at (x, y).
C18_FlagsCenteredAtPosition ==
    \A level \in Levels :
        NewOf(level)
           => \A n \in DOMAIN flags :
                 /\ flags[n].kind = "polygon"
                 /\ 2 * flags[n].extent = FLAG_SIDE
                 /\ flags[n].centroid = level.flags_positions[n]

\* C19: Engine::create hands every polygon of the Init record to the core
\* with its own flags: the engine entity made of it has the same is_static
\* and the same is_bindable, and infinite mass exactly when the input
\* is_static is true.  (Engine::new adds the polygons after the main ball,
\* in their order.)
C19_CreateKeepsPolygonFlags ==
    call.op = "create" =>
        \A n \in DOMAIN call.init.polygons :
            /\ entities[1 + n].is_static = call.init.polygons[n].is_static
            /\ entities[1 + n].is_bindable = call.init.polygons[n].is_bindable
            /\ (entities[1 + n].shape.mass = INFINITY) = call.init.polygons[n].is_static

\* the bindable entities that contain the point
Bindable(point) ==
    {k \in DOMAIN entities : includes(entities[k].shape, point) /\ entities[k].is_bindable}

\* C20: add_hinge(point) and add_rigid(point), when a bindable entity
\* contains the point, add exactly one Unbound anchor of the requested kind
\* to the first (lowest-index) bindable entity containing it, skipping
\* earlier non-bindable entities that contain it, and create no Binding;
\* every other entity, and the target's bindings and former anchors, are
\* unchanged.
C20_AnchorOnFirstBindable ==
    [][(/\ calls' = calls + 1
        /\ call'.op \in {"add_hinge", "add_rigid"}
        /\ Bindable(call'.point) # {})
          => \E t \in Bindable(call'.point) :
                /\ \A k \in Bindable(call'.point) : t <= k
                /\ Len(entities') = Len(entities)
                /\ \A k \in DOMAIN entities : k # t => entities'[k] = entities[k]
                /\ [entities'[t] EXCEPT !.unbound = entities[t].unbound] = entities[t]
                /\ Len(entities'[t].unbound) = Len(entities[t].unbound) + 1
                /\ SubSeq(entities'[t].unbound, 1, Len(entities[t].unbound))
                     = entities[t].unbound
                /\ entities'[t].unbound[Len(entities'[t].unbound)].kind
                     = (IF call'.op = "add_hinge" THEN "hinge" ELSE "rigid")]_vars

\* an add_rigid that has put its anchor on a bindable entity behind a
\* non-bindable entity that contains the point too
C20_Witness ==
    /\ call.op = "add_rigid"
    /\ call.found \in DOMAIN entities
    /\ entities[call.found].unbound # <<>>
    /\ entities[call.found].unbound[Len(entities[call.found].unbound)].kind = "rigid"
    /\ \E m \in 1..(call.found - 1) :
          includes(entities[m].shape, call.point) /\ ~entities[m].is_bindable

----------------------------------------------------------------------------
(* C21: the integration step                                               *)

\* the gravity increment of one tick of `microseconds`
GravityIncrement(microseconds) ==
    <<0, Mul(gravity_mulipiler, CoefTimes(GRAVITY_COEFFICIENT, microseconds))>>

\* the displacement of entity k in the integration step of the tick just run
Displacement(k) ==
    VSub(tick'.moved[k].centroid, entities[k].shape.centroid)

\* a step that is a completed tick
TickStep ==
    /\ call'.op = "run_iteration"
    /\ tick'.ran

\* C21 as stated: in one integration step of a non-static entity the
\* displacement is (old velocity + gravity increment) * movement coefficient
\* * time step
C21_DisplacementByUpdatedVelocity ==
    [][
        TickStep =>
            \A k \in DOMAIN entities :
                ~entities[k].is_static =>
                    Displacement(k) =
                        VScale(VAdd(entities[k].shape.velocity,
                                    GravityIncrement(call'.microseconds)),
                               CoefTimes(MOVEMENT_COEFFICIENT, call'.microseconds))
    ]_vars

\* C21 amended: in one integration step of a non-static entity the
\* displacement is old velocity * movement coefficient * time step, and the
\* velocity (observed on the main ball) becomes old velocity + gravity
\* increment
C21_DisplacementByOldVelocity ==
    [][
        TickStep =>
            /\ \A k \in DOMAIN entities :
                   ~entities[k].is_static =>
                       Displacement(k) =
                           VScale(entities[k].shape.velocity,
                                  CoefTimes(MOVEMENT_COEFFICIENT, call'.microseconds))
            /\ tick'.ball_moved.velocity =
                   VAdd(entities[1].shape.velocity,
                        GravityIncrement(call'.microseconds))
    ]_vars

\* a tick under gravity in which the main ball, already moving, was displaced
C21_Witness ==
    /\ tick.ran
    /\ gravity_mulipiler # 0
    /\ tick.ball_moved.velocity[2] = 2 * GravityIncrement(call.microseconds)[2]
    /\ tick.moved[1].centroid # main_ball_starting_position

----------------------------------------------------------------------------
(* C22: a pass whose normal impulse is not positive                        *)

\* the translation the positional correction gives body k in the last pass:
\* normal * min(penetration magnitude, 1e-6 * time step), split by inverse
\* mass, against the normal for the first body and along it for the second
PassCorrection(k) ==
    VScale(VScale(tick.normal, (2 * k - 3) * PassStep),
           FDiv(recip(tick.before[k].mass),
                recip(tick.before[1].mass) + recip(tick.before[2].mass)))

\* C22: when the normal impulse of a resolve_collision_with pass is not
\* positive, the linear and angular velocities of both bodies are left as
\* they were (no normal impulse, no friction impulse), and the positional
\* correction is still applied whenever at least one body has finite mass.
C22_NoImpulseKeepsVelocities ==
    (tick.resolved /\ PassNormalImpulse <= 0)
        => /\ \A k \in {1, 2} :
                 /\ tick.after[k].velocity = tick.before[k].velocity
                 /\ tick.after[k].angular_velocity = tick.before[k].angular_velocity
           /\ (is_finite(tick.before[1].mass) \/ is_finite(tick.before[2].mass))
                 => \A k \in {1, 2} :
                       tick.after[k].centroid =
                           VAdd(tick.before[k].centroid, PassCorrection(k))

\* a pass on two separating bodies that slide along each other, with both
\* friction tiers enabled: no impulse, and the correction has moved a body
C22_Witness ==
    /\ tick.resolved
    /\ PassNormalImpulse <= 0
    /\ PassStaticImpulse # 0
    /\ friction_mulipiler # 0
    /\ static_friction_enabled /\ dynamic_friction_enabled
    /\ tick.before[2].velocity # tick.before[1].velocity
    /\ tick.after[2].centroid # tick.before[2].centroid

----------------------------------------------------------------------------
(* C23: the order of integration, bounds check and pickup                  *)

\* the main ball of the tick just run, put at the spawn point
BallAtSpawn ==
    [tick'.ball_moved EXCEPT !.centroid = main_ball_starting_position]

\* the flags of `flag_list` that do not overlap `ball`, in their order
FlagsClearOf(ball, flag_list) ==
    SelectSeq(flag_list, LAMBDA flag : collision(ball, flag).none)

\* C23: in one run_iteration the pickup comes after the bounds check, which
\* comes after integration and cull: a ball that integration has taken out
\* of the bounds consumes exactly the flags that overlap it at the spawn
\* point, and none for overlapping it at its out-of-bounds position; a ball
\* within the bounds consumes the flags that overlap it where integration
\* has put it.
C23_PickupAfterRespawn ==
    [][
        TickStep =>
            IF out_of_bounds(tick'.ball_moved)
            THEN flags' = FlagsClearOf(BallAtSpawn, flags)
            ELSE flags' = FlagsClearOf(tick'.ball_moved, flags)
    ]_vars

\* a tick in which the ball has left the bounds from a spawn point within
\* them and a flag overlapping it at its out-of-bounds position is left
C23_Witness ==
    /\ tick.ran
    /\ out_of_bounds(tick.ball_moved)
    /\ ~out_of_bounds(tick.ball_checked)
    /\ \E n \in DOMAIN flags :
          /\ ~collision(tick.ball_moved, flags[n]).none
          /\ collision(tick.ball_checked, flags[n]).none

\* a tick in which the ball was out of the bounds and the flag overlapping
\* the spawn point has been consumed
C23_WitnessSpawnFlag ==
    /\ tick.ran
    /\ out_of_bounds(tick.ball_moved)
    /\ calls = 1
    /\ Len(flags) = 1
    /\ flags[1] # Polygon_new(main_ball_starting_position, FLAG_SIDE)

----------------------------------------------------------------------------
(* C24: run_iteration does not panic                                       *)

\* C24: no sequence of engine operations makes run_iteration panic: the
\* entity list is never empty, so entities[0] exists when it is indexed; the
\* two shapes of every collide call and of every Binding.enforce call of a
\* tick are distinct entities; and no Binding's partner is its owner, so
\* enforce never borrows again the shape the loop has already borrowed.
C24_TickNeverPanics ==
    /\ ~panicked
    /\ entities # <<>>
    /\ entities[1].addr = main_ball
    /\ \A k \in DOMAIN entities :
          \A b \in DOMAIN entities[k].bindings :
              entities[k].bindings[b].target # entities[k].addr
    /\ tick.ran =>
          \A n \in DOMAIN tick.trace : tick.trace[n].first # tick.trace[n].second

\* a tick that has made both a collide call and an enforce call and has left
\* the ball with a Binding whose partner is alive
C24_Witness ==
    /\ tick.ran
    /\ Calls("collide") # {}
    /\ Calls("enforce") # {}
    /\ \E b \in DOMAIN entities[1].bindings :
          Alive(entities, entities[1].bindings[b].target)

----------------------------------------------------------------------------
(* C25: a Binding whose partner has been destroyed                         *)

\* the tick's trace has a call `op` on the shapes at the two addresses
Called(op, first, second) ==
    \E n \in Calls(op) :
        {tick.trace[n].first, tick.trace[n].second} = {first, second}

\* the targets of the bindings of `ents` whose partner has been destroyed
DeadTargets(ents) ==
    {d.target : d \in dead_bindings(ents)}

C25_WitnessAddedAfter ==
    /\ call.op = "add_circle"
    /\ DeadTargets(entities) # {}
    /\ Len(entities) > 1
====
